---- MODULE Spec2Model ----
(***************************************************************************)
(* tiedot data files: the append-growing memory-mapped file (file.go,      *)
(* kept as src/unnamed/part_000 lines 1-123) and the chained hash table of *)
(* uint64 key-value pairs built on it (src/file/hash.go).                  *)
(*                                                                         *)
(* The byte window File.Buf is modelled byte by byte, and every address is *)
(* computed as the code computes it.                                       *)
(***************************************************************************)
EXTENDS Integers, Sequences, FiniteSets, TLC

(***************************************************************************)
(* Program constants (hash.go 13-20).                                      *)
(***************************************************************************)
ENTRY_VALID == 1
ENTRY_INVALID == 0
ENTRY_SIZE == 21
BUCKET_HEADER_SIZE == 10

(***************************************************************************)
(* Bounds of the model.                                                    *)
(***************************************************************************)
\* Overflow buckets a table may append before growth is cut off.
MaxOverflow == 3
\* Calls made in one run of the sequential specification.
MaxOps == 4
\* The growth increment of the scaled build (see ScaledConsts).
ScaledGrowth == 128

(***************************************************************************)
(* The three size constants of the build.  RealConsts are the values of    *)
(* the source.  ScaledConsts shrinks the two growth increments, which the  *)
(* source keeps equal, so that a table of a few buckets fills its file and *)
(* the file is extended; the region size keeps its value.                  *)
(***************************************************************************)
RealConsts ==
    [HASH_TABLE_GROWTH |-> 1048576,
     FILE_GROWTH_INCREMENTAL |-> 1048576,
     HASH_TABLE_REGION_SIZE |-> 1024 * 16]

ScaledConsts ==
    [HASH_TABLE_GROWTH |-> ScaledGrowth,
     FILE_GROWTH_INCREMENTAL |-> ScaledGrowth,
     HASH_TABLE_REGION_SIZE |-> 1024 * 16]

Pow2(n) == 2 ^ n

(***************************************************************************)
(* encoding/binary varints, as called on the 10-byte fields of the window. *)
(***************************************************************************)
\* buf[i]: a byte window b is kept as the function from the offsets of its
\* non-zero bytes to those bytes; every other byte of the mapping is zero.
ByteAt(b, i) == IF i \in DOMAIN b THEN b[i] ELSE 0

\* buf[i] = x
SetByte(b, i, x) ==
    [j \in IF x = 0 THEN DOMAIN b \ {i} ELSE DOMAIN b \cup {i} |->
        IF j = i THEN x ELSE b[j]]

\* A window of zero bytes.
ZeroBytes == [i \in {} |-> 0]

\* binary.Uvarint(buf[a : a+n]): little-endian base-128, stops at the first
\* byte below 0x80; 0 when the field ends first.
RECURSIVE UvarintFrom(_, _, _, _, _, _)
UvarintFrom(b, a, n, i, x, s) ==
    IF i = n THEN 0
    ELSE LET c == ByteAt(b, a + i) IN
         IF c < 128
         THEN IF i > 9 \/ (i = 9 /\ c > 1) THEN 0 ELSE x + c * Pow2(s)
         ELSE UvarintFrom(b, a, n, i + 1, x + (c % 128) * Pow2(s), s + 7)

Uvarint(b, a, n) == UvarintFrom(b, a, n, 0, 0, 0)

\* binary.PutUvarint(buf[a : a+n], x): writes only the bytes of the varint
\* and leaves the rest of the field as it was.
RECURSIVE PutUvarint(_, _, _)
PutUvarint(b, a, x) ==
    IF x >= 128
    THEN PutUvarint(SetByte(b, a, (x % 128) + 128), a + 1, x \div 128)
    ELSE SetByte(b, a, x)

(***************************************************************************)
(* File (part_000 14-110).  A file value F has the fields of the struct:   *)
(* Size, UsedSize, Growth, Buf; Len is the length of the file on disk and  *)
(* Mapped tells whether Buf is a live mapping.                             *)
(***************************************************************************)
\* Bytes written by one pass of the "grow the file incrementally" loop.
RECURSIVE GrowthWritten(_, _, _)
GrowthWritten(K, growth, i) ==
    IF i < growth
    THEN (IF i + K.FILE_GROWTH_INCREMENTAL > growth
          THEN i + K.FILE_GROWTH_INCREMENTAL - growth
          ELSE K.FILE_GROWTH_INCREMENTAL)
         + GrowthWritten(K, growth, i + K.FILE_GROWTH_INCREMENTAL)
    ELSE 0

\* CheckSize that leaves more out of the sum.
CheckSizeWithoutMore(F, more) == F.UsedSize <= F.Size

\* file.UsedSize+more <= file.Size
CheckSize(F, more) == F.UsedSize + more <= F.Size

\* One growth step of CheckSizeAndEnsure: unmap, append, sync, map, Size +=.
GrowFile(K, F) ==
    [F EXCEPT !.Len = @ + GrowthWritten(K, F.Growth, 0),
              !.Mapped = TRUE,
              !.Size = @ + F.Growth]

RECURSIVE CheckSizeAndEnsure(_, _, _)
CheckSizeAndEnsure(K, F, more) ==
    IF F.UsedSize + more <= F.Size
    THEN F
    ELSE CheckSizeAndEnsure(K, GrowFile(K, F), more)

\* The "find used size" loop of Open on a mapped window b of length size.
\* An index outside 0..size-1 panics: mid-1 wraps around when mid is 0.
RECURSIVE FindUsedSize(_, _, _, _, _)
FindUsedSize(b, size, low, mid, high) ==
    IF high - mid = 1
    THEN IF ByteAt(b, mid) = 0
         THEN IF mid = 0
              THEN [panic |-> TRUE, UsedSize |-> 0]
              ELSE IF ByteAt(b, mid - 1) = 0
                   THEN [panic |-> FALSE, UsedSize |-> mid - 1]
                   ELSE [panic |-> FALSE, UsedSize |-> mid]
         ELSE [panic |-> FALSE, UsedSize |-> high]
    ELSE IF mid >= size
         THEN [panic |-> TRUE, UsedSize |-> 0]
         ELSE IF ByteAt(b, mid) = 0
              THEN FindUsedSize(b, size, low, low + (mid - low) \div 2, mid)
              ELSE FindUsedSize(b, size, mid, mid + (high - mid) \div 2, high)

\* The system calls of Open that can fail, and "none" when all succeed.
SysErrs == {"none", "OpenFile", "Seek", "Map"}

\* Open(name, growth) on the file whose bytes are b and whose length is len,
\* where sysErr is the system call that fails.  err is the error handed to
\* the caller: the one set for growth < 1 is overwritten by the result of
\* os.OpenFile, which is the next statement to assign err.
Open(K, b, len, growth, sysErr) ==
    LET errGrowth == growth < 1
        errOpenFile == sysErr = "OpenFile"
        F0 == [Size |-> 0, UsedSize |-> 0, Growth |-> growth,
               Buf |-> ZeroBytes, Len |-> len, Mapped |-> FALSE]
        F1 == [F0 EXCEPT !.Size = len]
    IN  IF errOpenFile
        THEN [file |-> F0, err |-> TRUE, panic |-> FALSE]
        ELSE IF sysErr = "Seek"
        THEN [file |-> F0, err |-> TRUE, panic |-> FALSE]
        ELSE IF len = 0
        THEN [file |-> CheckSizeAndEnsure(K, [F1 EXCEPT !.Buf = b], growth),
              err |-> FALSE, panic |-> FALSE]
        ELSE IF sysErr = "Map"
        THEN [file |-> F1, err |-> TRUE, panic |-> FALSE]
        ELSE LET u == FindUsedSize(b, len, 0, len \div 2, len) IN
             [file |-> [F1 EXCEPT !.Buf = b, !.Mapped = TRUE,
                                   !.UsedSize = u.UsedSize],
              err |-> FALSE, panic |-> u.panic]

(***************************************************************************)
(* HashTable (hash.go).  A table value T has the fields of the struct:     *)
(* File, BucketSize, HashBits, PerBucket, NumBuckets, InitialBuckets;      *)
(* NumMutexes is len(regionRWMutex).                                       *)
(***************************************************************************)
\* The checks of nextBucket on the number next read from a bucket header.
nextBucketOf(T, bucket, next) ==
    IF next = 0 THEN 0
    ELSE IF next <= bucket THEN 0
    ELSE IF next >= T.NumBuckets \/ next < T.InitialBuckets THEN 0
    ELSE next

\* Return the number of next chained bucket, 0 if there is not any.
nextBucket(T, bucket) ==
    IF bucket >= T.NumBuckets
    THEN 0
    ELSE LET bucketAddr == bucket * T.BucketSize
             next == Uvarint(T.File.Buf, bucketAddr, BUCKET_HEADER_SIZE)
         IN  nextBucketOf(T, bucket, next)

\* Return the last bucket number in chain.
RECURSIVE lastBucket(_, _)
lastBucket(T, bucket) ==
    LET next == nextBucket(T, bucket) IN
    IF next = 0 THEN bucket ELSE lastBucket(T, next)

\* Return a hash key to be used by hash table by masking non-key bits.
hashKey(T, key) == key % Pow2(T.HashBits)

\* The "find the longest bucket train" loop of OpenHash, from head i on.
RECURSIVE longestBucketChain(_, _, _)
longestBucketChain(T, i, longest) ==
    IF i < T.InitialBuckets
    THEN LET last == lastBucket(T, i) IN
         longestBucketChain(T, i + 1,
             IF last + 1 > longest /\ last + 1 <= T.NumBuckets
             THEN last + 1 ELSE longest)
    ELSE longest

\* OpenHash(name, hashBits, perBucket) on the file with bytes b, length len.
OpenHash(K, b, len, hashBits, perBucket) ==
    IF hashBits < 2 \/ perBucket < 2
    THEN [err |-> TRUE, panic |-> FALSE, ht |-> <<>>]
    ELSE
    LET o == Open(K, b, len, K.HASH_TABLE_GROWTH, "none") IN
    IF o.err \/ o.panic
    THEN [err |-> o.err, panic |-> o.panic, ht |-> <<>>]
    ELSE
    LET file == o.file
        BucketSize == BUCKET_HEADER_SIZE + ENTRY_SIZE * perBucket
        T0 == [File |-> [file EXCEPT !.UsedSize = file.Size],
               NumMutexes |-> file.Size \div K.HASH_TABLE_REGION_SIZE + 1,
               HashBits |-> hashBits, PerBucket |-> perBucket,
               BucketSize |-> BucketSize,
               NumBuckets |-> file.Size \div BucketSize,
               InitialBuckets |-> Pow2(hashBits)]
        T1 == [T0 EXCEPT !.NumBuckets =
                  longestBucketChain(T0, 0, T0.InitialBuckets)]
        usedSize == T1.NumBuckets * BucketSize
        F2 == IF usedSize > T1.File.Size
              THEN CheckSizeAndEnsure(K, T1.File,
                       ((usedSize - T1.File.Size) \div BucketSize + 1) * BucketSize)
              ELSE T1.File
    IN  [err |-> FALSE, panic |-> FALSE,
         ht |-> [T1 EXCEPT !.File = [F2 EXCEPT !.UsedSize = usedSize]]]

\* len(moreMutexes) of grow.
moreMutexes(K) == K.HASH_TABLE_GROWTH \div K.HASH_TABLE_REGION_SIZE + 1

\* growLink that sets the header of the head bucket of the chain.
growLinkAtHead(T, bucket) ==
    PutUvarint(T.File.Buf, bucket * T.BucketSize, T.NumBuckets)

\* grow: the window after the header of the chain's last bucket is set to
\* the number of the new bucket.
growLink(T, bucket) ==
    LET lastBucketAddr == lastBucket(T, bucket) * T.BucketSize IN
    PutUvarint(T.File.Buf, lastBucketAddr, T.NumBuckets)

\* grow with the used size raised by the size of an entry.
growUsedSizeByEntry(T) == T.File.UsedSize + ENTRY_SIZE

\* grow: ht.File.UsedSize += ht.BucketSize
growUsedSize(T) == T.File.UsedSize + T.BucketSize

\* Grow a new bucket on the chain of buckets (no other thread running).
grow(K, T, bucket) ==
    LET full == ~CheckSize(T.File, T.BucketSize)
        T1 == IF full
              THEN [T EXCEPT !.File = CheckSizeAndEnsure(K, T.File, T.BucketSize),
                             !.NumMutexes = @ + moreMutexes(K)]
              ELSE T
    IN  [T1 EXCEPT !.File.Buf = growLink(T1, bucket),
                   !.File.UsedSize = growUsedSize(T1),
                   !.NumBuckets = @ + 1]

entryAddrOf(T, bucket, entry) ==
    bucket * T.BucketSize + BUCKET_HEADER_SIZE + entry * ENTRY_SIZE

entryKeyAt(T, entryAddr) == Uvarint(T.File.Buf, entryAddr + 1, 10)

entryValAt(T, entryAddr) == Uvarint(T.File.Buf, entryAddr + 11, 10)

\* PutEntry with the value written one byte early, at entryAddr+10.
PutEntryValueEarly(b, entryAddr, key, val) ==
    PutUvarint(PutUvarint(SetByte(b, entryAddr, ENTRY_VALID),
                          entryAddr + 1, key),
               entryAddr + 10, val)

\* The three writes by which Put claims the entry at entryAddr.
PutFlag(b, entryAddr) == SetByte(b, entryAddr, ENTRY_VALID)

PutKey(b, entryAddr, key) == PutUvarint(b, entryAddr + 1, key)

PutVal(b, entryAddr, val) == PutUvarint(b, entryAddr + 11, val)

PutEntry(b, entryAddr, key, val) ==
    PutVal(PutKey(PutFlag(b, entryAddr), entryAddr, key), entryAddr, val)

\* PutSlot that takes the last entry of the bucket whose flag is not valid.
PutSlotLastFree(T, bucket, entry) ==
    LET free == {e \in entry .. T.PerBucket - 1 :
                     ByteAt(T.File.Buf, entryAddrOf(T, bucket, e)) # ENTRY_VALID}
    IN  IF free = {} THEN T.PerBucket
        ELSE CHOOSE e \in free : \A d \in free : d <= e

\* Put's entry loop inside one bucket, from entry on: the first entry whose
\* flag is not valid, or PerBucket when every entry is valid.
RECURSIVE PutSlot(_, _, _)
PutSlot(T, bucket, entry) ==
    IF ByteAt(T.File.Buf, entryAddrOf(T, bucket, entry)) # ENTRY_VALID
    THEN entry
    ELSE IF entry + 1 = T.PerBucket
         THEN T.PerBucket
         ELSE PutSlot(T, bucket, entry + 1)

\* Put a new key-value pair: the loop over the chain from bucket on, with
\* no other thread running.
RECURSIVE PutFrom(_, _, _, _, _)
PutFrom(K, T, key, val, bucket) ==
    LET entry == PutSlot(T, bucket, 0) IN
    IF entry < T.PerBucket
    THEN [T EXCEPT !.File.Buf =
              PutEntry(@, entryAddrOf(T, bucket, entry), key, val)]
    ELSE LET next == nextBucket(T, bucket) IN
         IF next = 0
         THEN PutFrom(K, grow(K, T, hashKey(T, key)), key, val, hashKey(T, key))
         ELSE PutFrom(K, T, key, val, next)

Put(K, T, key, val) == PutFrom(K, T, key, val, hashKey(T, key))

\* The filters handed to Get.
Filters == {"true", "odd"}

filter(f, key, val) == IF f = "true" THEN TRUE ELSE val % 2 = 1

NoPairs == [keys |-> <<>>, vals |-> <<>>]

\* getMatch without the comparison of the stored key.
getMatchAnyKey(key, f, entryKey, entryVal) == filter(f, entryKey, entryVal)

\* Get's test of a valid entry: entryKey == key && filter(entryKey, entryVal)
getMatch(key, f, entryKey, entryVal) ==
    entryKey = key /\ filter(f, entryKey, entryVal)

AppendPair(res, key, val) ==
    [keys |-> Append(res.keys, key), vals |-> Append(res.vals, val)]

\* Get's entry loop inside one bucket, from entry on; count is the length
\* of the result so far.  out tells how the loop leaves the bucket:
\* "return", or "next" when the bucket is exhausted.
RECURSIVE GetBucket(_, _, _, _, _, _, _)
GetBucket(T, key, limit, f, bucket, entry, res) ==
    LET entryAddr == entryAddrOf(T, bucket, entry)
        entryKey == entryKeyAt(T, entryAddr)
        entryVal == entryValAt(T, entryAddr)
        hit == /\ ByteAt(T.File.Buf, entryAddr) = ENTRY_VALID
               /\ getMatch(key, f, entryKey, entryVal)
        res1 == IF hit THEN AppendPair(res, entryKey, entryVal) ELSE res
    IN  IF hit /\ Len(res1.keys) = limit
        THEN [res |-> res1, out |-> "return"]
        ELSE IF /\ ByteAt(T.File.Buf, entryAddr) # ENTRY_VALID
                /\ entryKey = 0 /\ entryVal = 0
        THEN [res |-> res1, out |-> "return"]
        ELSE IF entry + 1 = T.PerBucket
             THEN [res |-> res1, out |-> "next"]
             ELSE GetBucket(T, key, limit, f, bucket, entry + 1, res1)

\* Get key-value pairs: the loop over the chain from bucket on.
RECURSIVE GetFrom(_, _, _, _, _, _)
GetFrom(T, key, limit, f, bucket, res) ==
    LET s == GetBucket(T, key, limit, f, bucket, 0, res) IN
    IF s.out = "next"
    THEN LET next == nextBucket(T, bucket) IN
         IF next = 0 THEN s.res
         ELSE GetFrom(T, key, limit, f, next, s.res)
    ELSE s.res

Get(T, key, limit, f) == GetFrom(T, key, limit, f, hashKey(T, key), NoPairs)

\* RemoveFlag that also clears the first byte of the key field.
RemoveFlagAndKey(b, entryAddr) ==
    SetByte(SetByte(b, entryAddr, ENTRY_INVALID), entryAddr + 1, 0)

\* ht.File.Buf[entryAddr] = ENTRY_INVALID
RemoveFlag(b, entryAddr) == SetByte(b, entryAddr, ENTRY_INVALID)

\* Remove's entry loop inside one bucket, from entry on: the window it
\* leaves, and "return" or "next".
RECURSIVE RemoveBucket(_, _, _, _, _)
RemoveBucket(T, key, val, bucket, entry) ==
    LET entryAddr == entryAddrOf(T, bucket, entry)
        entryKey == entryKeyAt(T, entryAddr)
        entryVal == entryValAt(T, entryAddr)
    IN  IF ByteAt(T.File.Buf, entryAddr) = ENTRY_VALID
           /\ entryKey = key /\ entryVal = val
        THEN [Buf |-> RemoveFlag(T.File.Buf, entryAddr), out |-> "return"]
        ELSE IF /\ ByteAt(T.File.Buf, entryAddr) # ENTRY_VALID
                /\ entryKey = 0 /\ entryVal = 0
        THEN [Buf |-> T.File.Buf, out |-> "return"]
        ELSE IF entry + 1 = T.PerBucket
             THEN [Buf |-> T.File.Buf, out |-> "next"]
             ELSE RemoveBucket(T, key, val, bucket, entry + 1)

\* Remove specific key-value pair: the loop over the chain from bucket on.
RECURSIVE RemoveFrom(_, _, _, _)
RemoveFrom(T, key, val, bucket) ==
    LET s == RemoveBucket(T, key, val, bucket, 0) IN
    IF s.out = "next"
    THEN LET next == nextBucket(T, bucket) IN
         IF next = 0 THEN T
         ELSE RemoveFrom(T, key, val, next)
    ELSE [T EXCEPT !.File.Buf = s.Buf]

Remove(T, key, val) == RemoveFrom(T, key, val, hashKey(T, key))

\* GetAll's entry loop inside one bucket, from entry on; counter is the
\* length of the result so far.  out is "return" at the limit, "break" at
\* a never-written entry, "next" when the bucket is exhausted.
RECURSIVE GetAllBucket(_, _, _, _, _)
GetAllBucket(T, limit, bucket, entry, res) ==
    LET entryAddr == entryAddrOf(T, bucket, entry)
        entryKey == entryKeyAt(T, entryAddr)
        entryVal == entryValAt(T, entryAddr)
        valid == ByteAt(T.File.Buf, entryAddr) = ENTRY_VALID
        res1 == IF valid THEN AppendPair(res, entryKey, entryVal) ELSE res
    IN  IF valid /\ Len(res1.keys) = limit
        THEN [res |-> res1, out |-> "return"]
        ELSE IF ~valid /\ entryKey = 0 /\ entryVal = 0
        THEN [res |-> res1, out |-> "break"]
        ELSE IF entry + 1 = T.PerBucket
             THEN [res |-> res1, out |-> "next"]
             ELSE GetAllBucket(T, limit, bucket, entry + 1, res1)

\* GetAll, at the end of the bucket chain of one head (nextBucket gave 0):
\* "return", the code returns from GetAll instead of going on to the next
\* head.
GetAllChainEnd == "return"

\* Return all entries in the hash table: the loops from (head, bucket) on.
RECURSIVE GetAllFrom(_, _, _, _, _)
GetAllFrom(T, limit, head, bucket, res) ==
    IF ~(head < Pow2(T.HashBits))
    THEN res
    ELSE
    LET s == GetAllBucket(T, limit, bucket, 0, res) IN
    IF s.out = "return"
    THEN s.res
    ELSE IF s.out = "break"
    THEN GetAllFrom(T, limit, head + 1, head + 1, s.res)
    ELSE LET next == nextBucket(T, bucket) IN
         IF next = 0
         THEN IF GetAllChainEnd = "return"
              THEN s.res
              ELSE GetAllFrom(T, limit, head + 1, head + 1, s.res)
         ELSE GetAllFrom(T, limit, head, next, s.res)

GetAll(T, limit) == GetAllFrom(T, limit, 0, 0, NoPairs)

(***************************************************************************)
(* State.                                                                  *)
(***************************************************************************)
VARIABLES
    consts,     \* the size constants of the build (hash.go 14, 19; part_000 12)
    ht,         \* the HashTable, with its File
    status,     \* "open", or "panicked" once a call has panicked
    last,       \* the last call made: [op, key, val, limit, filter]
    ret,        \* what the last Get or GetAll returned
    prev,       \* the table (FileSpec: the File) as it was before the last call
    puts,       \* the pairs put so far, in call order
    onlyPuts,   \* no Remove and no reopening since the table was created
    nops,       \* calls made so far
    fdisk,      \* FileSpec: the file on disk, [Buf, Len]
    file,       \* FileSpec: the File that Open handed back
    ferr,       \* FileSpec: whether Open handed back an error
    fpc,        \* FileSpec: "closed", "open", "failed", "panicked", "diverged"
    fcall,      \* FileSpec: the last call, [op, growth, more, sysErr]
    th,             \* ConcSpec: the threads, each with its call and position
    tableGrowMutex, \* ConcSpec: the thread that holds the mutex, or 0
    regionRWMutex,  \* ConcSpec: the region locks held, <<region, thread, mode>>
    committed,      \* ConcSpec: the pair of the last finished Put of each entry
    unmappedAccess  \* ConcSpec: threads that used the window while unmapped

seqVars == <<ht, status, last, ret, prev, puts, onlyPuts, nops>>

fileVars == <<fdisk, file, ferr, fpc, fcall>>

concVars == <<th, tableGrowMutex, regionRWMutex, committed, unmappedAccess>>

vars == <<consts, seqVars, fileVars, concVars>>

\* OpenHash on a file that does not exist yet.
NewTable(K, hashBits, perBucket) ==
    OpenHash(K, ZeroBytes, 0, hashBits, perBucket).ht

\* The tables of the model: the scaled build with 4 heads, and the build
\* of the source with the 16 heads of the spec's scenarios.
Configs ==
    {[K |-> ScaledConsts, hashBits |-> 2, perBucket |-> 2],
     [K |-> RealConsts, hashBits |-> 4, perBucket |-> 2]}

\* Keys and values of the calls: keys that collide on head 0 (with key 0
\* among them) and one of another head; value 0, and values of two bytes.
Keys(T) == IF T.HashBits = 4 THEN {0, 16, 32} ELSE {0, 1, 4}

Vals(T) == IF T.HashBits = 4 THEN {100, 200, 300} ELSE {0, 1}

Limits == 0 .. 2

NoCall == [op |-> "none", key |-> 0, val |-> 0, limit |-> 0, filter |-> "true"]

Call(op, key, val, limit, f) ==
    [op |-> op, key |-> key, val |-> val, limit |-> limit, filter |-> f]

\* Every entry of the chain from (bucket, entry) on is valid: Put will grow.
RECURSIVE ChainFull(_, _, _)
ChainFull(T, bucket, entry) ==
    IF ByteAt(T.File.Buf, entryAddrOf(T, bucket, entry)) # ENTRY_VALID
    THEN FALSE
    ELSE IF entry + 1 = T.PerBucket
         THEN LET next == nextBucket(T, bucket) IN
              IF next = 0 THEN TRUE ELSE ChainFull(T, next, 0)
         ELSE ChainFull(T, bucket, entry + 1)

\* The bound on growth: a Put that has to grow is left out at the bound.
PutFits(T, key) ==
    ChainFull(T, hashKey(T, key), 0)
        => T.NumBuckets < T.InitialBuckets + MaxOverflow

\* The File of FileSpec before Open is called.
NoFile ==
    [Size |-> 0, UsedSize |-> 0, Growth |-> 0, Buf |-> ZeroBytes,
     Len |-> 0, Mapped |-> FALSE]

NoFileCall == [op |-> "none", growth |-> 0, more |-> 0, sysErr |-> "none"]

\* The variables of FileSpec, where they are not used.
FileIdle ==
    /\ fdisk = [Buf |-> ZeroBytes, Len |-> 0]
    /\ file = NoFile
    /\ ferr = FALSE
    /\ fpc = "closed"
    /\ fcall = NoFileCall

\* The goroutines that call the table in ConcSpec.
Threads == {1, 2}

\* A thread between two calls, with left calls still to make.
IdleThread(left) ==
    [pc |-> "idle", op |-> "none", key |-> 0, val |-> 0, bucket |-> 0,
     head |-> 0, entry |-> 0, res |-> NoPairs, puts |-> <<>>, left |-> left]

\* The variables of ConcSpec, where they are not used.
ConcIdle ==
    /\ th = [t \in Threads |-> IdleThread(0)]
    /\ tableGrowMutex = 0
    /\ regionRWMutex = {}
    /\ committed = {}
    /\ unmappedAccess = {}

Init ==
    /\ \E c \in Configs :
           /\ consts = c.K
           /\ ht = NewTable(c.K, c.hashBits, c.perBucket)
    /\ status = "open"
    /\ last = NoCall
    /\ ret = NoPairs
    /\ prev = ht
    /\ puts = <<>>
    /\ onlyPuts = TRUE
    /\ nops = 0
    /\ FileIdle
    /\ ConcIdle

CanCall == status = "open" /\ nops < MaxOps

DoPut(key, val) ==
    /\ CanCall
    /\ PutFits(ht, key)
    /\ ht' = Put(consts, ht, key, val)
    /\ last' = Call("Put", key, val, 0, "true")
    /\ ret' = NoPairs
    /\ prev' = ht
    /\ puts' = Append(puts, <<key, val>>)
    /\ nops' = nops + 1
    /\ UNCHANGED <<consts, status, onlyPuts, fileVars, concVars>>

DoRemove(key, val) ==
    /\ CanCall
    /\ ht' = Remove(ht, key, val)
    /\ last' = Call("Remove", key, val, 0, "true")
    /\ ret' = NoPairs
    /\ prev' = ht
    /\ onlyPuts' = FALSE
    /\ nops' = nops + 1
    /\ UNCHANGED <<consts, status, puts, fileVars, concVars>>

DoGet(key, limit, f) ==
    /\ CanCall
    /\ ret' = Get(ht, key, limit, f)
    /\ last' = Call("Get", key, 0, limit, f)
    /\ prev' = ht
    /\ nops' = nops + 1
    /\ UNCHANGED <<consts, ht, status, puts, onlyPuts, fileVars, concVars>>

DoGetAll(limit) ==
    /\ CanCall
    /\ ret' = GetAll(ht, limit)
    /\ last' = Call("GetAll", 0, 0, limit, "true")
    /\ prev' = ht
    /\ nops' = nops + 1
    /\ UNCHANGED <<consts, ht, status, puts, onlyPuts, fileVars, concVars>>

\* Close, then OpenHash on the same file with the same hashBits, perBucket.
DoReopen ==
    /\ CanCall
    /\ LET o == OpenHash(consts, ht.File.Buf, ht.File.Len,
                         ht.HashBits, ht.PerBucket)
       IN  IF o.panic \/ o.err
           THEN /\ status' = "panicked"
                /\ ht' = [ht EXCEPT !.File.Mapped = FALSE]
           ELSE /\ status' = status
                /\ ht' = o.ht
    /\ last' = Call("Reopen", 0, 0, 0, "true")
    /\ ret' = NoPairs
    /\ prev' = ht
    /\ onlyPuts' = FALSE
    /\ nops' = nops + 1
    /\ UNCHANGED <<consts, puts, fileVars, concVars>>

Next ==
    \/ \E key \in Keys(ht), val \in Vals(ht) : DoPut(key, val)
    \/ \E key \in Keys(ht), val \in Vals(ht) : DoRemove(key, val)
    \/ \E key \in Keys(ht), limit \in Limits, f \in Filters : DoGet(key, limit, f)
    \/ \E limit \in Limits : DoGetAll(limit)
    \/ DoReopen

Spec == Init /\ [][Next]_vars

(***************************************************************************)
(* FileSpec: Open and CheckSizeAndEnsure on their own (part_000 22-110),   *)
(* on files of a few bytes and with small growth increments.               *)
(***************************************************************************)
\* Longest file that exists before Open.
MaxFileLen == 6
\* Largest growth handed to Open, and largest more handed to the file.
MaxGrowth == 6
\* FILE_GROWTH_INCREMENTAL of the build FileSpec runs.
ScaledIncrement == 4

FileConsts ==
    [HASH_TABLE_GROWTH |-> ScaledGrowth,
     FILE_GROWTH_INCREMENTAL |-> ScaledIncrement,
     HASH_TABLE_REGION_SIZE |-> 1024 * 16]

\* The files on disk: every length up to MaxFileLen, every choice of the
\* bytes that are not zero.
Disks ==
    UNION {{[Buf |-> [i \in S |-> 1], Len |-> n] : S \in SUBSET (0 .. n - 1)} :
           n \in 0 .. MaxFileLen}

FileInit ==
    /\ consts = FileConsts
    /\ ht = <<>>
    /\ status = "closed"
    /\ last = NoCall
    /\ ret = NoPairs
    /\ prev = <<>>
    /\ puts = <<>>
    /\ onlyPuts = TRUE
    /\ nops = 0
    /\ fdisk \in Disks
    /\ file = NoFile
    /\ ferr = FALSE
    /\ fpc = "closed"
    /\ fcall = NoFileCall
    /\ ConcIdle

\* file, err = Open(name, growth)
FOpen(growth, sysErr) ==
    /\ fpc = "closed"
    /\ fcall.op = "none"
    /\ LET o == Open(consts, fdisk.Buf, fdisk.Len, growth, sysErr) IN
       /\ file' = o.file
       /\ ferr' = o.err
       /\ fpc' = IF o.panic THEN "panicked"
                 ELSE IF o.err THEN "failed" ELSE "open"
       /\ fdisk' = IF o.panic \/ o.err THEN fdisk
                   ELSE [Buf |-> o.file.Buf, Len |-> o.file.Len]
    /\ fcall' = [op |-> "Open", growth |-> growth, more |-> 0, sysErr |-> sysErr]
    /\ UNCHANGED <<consts, seqVars, concVars>>

\* file.CheckSizeAndEnsure(more); with Growth 0 the recursion never ends.
FEnsure(more) ==
    /\ fpc = "open"
    /\ fcall.op = "Open"
    /\ IF file.Growth = 0 /\ ~CheckSize(file, more)
       THEN /\ fpc' = "diverged"
            /\ UNCHANGED <<file, fdisk>>
       ELSE /\ file' = CheckSizeAndEnsure(consts, file, more)
            /\ fdisk' = [fdisk EXCEPT !.Len = file'.Len]
            /\ fpc' = fpc
    /\ fcall' = [op |-> "CheckSizeAndEnsure", growth |-> file.Growth,
                 more |-> more, sysErr |-> "none"]
    /\ prev' = file
    /\ UNCHANGED <<consts, ht, status, last, ret, puts, onlyPuts, nops,
                   concVars, ferr>>

FileNext ==
    \/ \E growth \in 0 .. MaxGrowth, sysErr \in SysErrs : FOpen(growth, sysErr)
    \/ \E more \in 0 .. MaxGrowth : FEnsure(more)

FileSpec == FileInit /\ [][FileNext]_vars

(***************************************************************************)
(* ConcSpec: the calls of hash.go made by two goroutines on one table of   *)
(* the scaled build, a step at a time.  A step is one acquisition of a     *)
(* lock, the statements of one bucket done while a region lock is held     *)
(* (with Put's three writes of an entry kept apart), one nextBucket with   *)
(* no lock held, or one statement of grow.                                 *)
(***************************************************************************)
\* Calls made by one thread.
MaxThreadOps == 2

\* Keys and values of the calls: two heads, values that are not zero.
CKeys == {0, 1}

CVals == {1, 2}

\* region := bucket / HASH_TABLE_REGION_SIZE
Region(K, bucket) == bucket \div K.HASH_TABLE_REGION_SIZE

\* mutex.Lock() on a region lock can return: nobody holds it.
CanLock(held, region) == \A h \in held : h[1] # region

\* RLock that does not wait for the writer.
CanRLockAlways(held, region) == TRUE

\* mutex.RLock() on a region lock can return: no writer holds it.
CanRLock(held, region) == \A h \in held : h[1] = region => h[3] = "R"

\* Put and Remove lock a region exclusively, Get and GetAll share it.
LockMode(op) == IF op \in {"Put", "Remove"} THEN "W" ELSE "R"

\* The thread record after its call has returned.
Returned(s) ==
    [s EXCEPT !.pc = "idle", !.op = "none", !.key = 0, !.val = 0,
              !.bucket = 0, !.head = 0, !.entry = 0, !.res = NoPairs]

\* The pairs put, by one thread, before the threads of ConcSpec start:
\* none, or two on each of the heads 0 and 1, which fill both buckets.
Prefills == {<<>>, <<<<0, 1>>, <<0, 2>>, <<1, 1>>, <<1, 2>>>>}

\* The table after the pairs of ps have been put one after the other.  The
\* sequence is halved, and the table of the first half is computed before
\* the second half is put, to keep the evaluation shallow.
RECURSIVE PutAll(_, _, _)
PutAll(K, T, ps) ==
    IF ps = <<>> THEN T
    ELSE IF Len(ps) = 1 THEN Put(K, T, ps[1][1], ps[1][2])
    ELSE LET half == Len(ps) \div 2
             T1 == PutAll(K, T, SubSeq(ps, 1, half))
         IN  IF T1.NumBuckets = 0 THEN T1
             ELSE PutAll(K, T1, SubSeq(ps, half + 1, Len(ps)))

\* The valid entries of a table, <<bucket, entry, key, val>>.
ValidEntries(T) ==
    {<<bucket, entry,
       entryKeyAt(T, entryAddrOf(T, bucket, entry)),
       entryValAt(T, entryAddrOf(T, bucket, entry))>> :
         <<bucket, entry>> \in
             {be \in (0 .. T.NumBuckets - 1) \X (0 .. T.PerBucket - 1) :
                  ByteAt(T.File.Buf, entryAddrOf(T, be[1], be[2])) = ENTRY_VALID}}

\* Calls each thread makes: MaxThreadOps on a new table, one on a table
\* that was filled before.
CallsLeft(ps) == IF ps = <<>> THEN MaxThreadOps ELSE 1

ConcInit ==
    /\ consts = ScaledConsts
    /\ puts \in Prefills
    /\ ht = PutAll(ScaledConsts, NewTable(ScaledConsts, 2, 2), puts)
    /\ status = "open"
    /\ last = NoCall
    /\ ret = NoPairs
    /\ prev = ht
    /\ onlyPuts = TRUE
    /\ nops = 0
    /\ FileIdle
    /\ th = [t \in Threads |-> IdleThread(CallsLeft(puts))]
    /\ tableGrowMutex = 0
    /\ regionRWMutex = {}
    /\ committed = ValidEntries(ht)
    /\ unmappedAccess = {}

\* The variables no step of ConcSpec changes.
concFixed == <<consts, last, ret, prev, puts, nops, fileVars>>

\* Thread t calls op(key, val): the statements before the first lock.
CBegin(t, op, key, val) ==
    /\ status = "open"
    /\ th[t].pc = "idle"
    /\ th[t].left > 0
    /\ th' = [th EXCEPT ![t] =
                 [@ EXCEPT !.pc = "lock", !.op = op, !.key = key, !.val = val,
                           !.bucket = IF op = "GetAll" THEN 0
                                      ELSE hashKey(ht, key),
                           !.left = @ - 1]]
    /\ onlyPuts' = (onlyPuts /\ op # "Remove")
    /\ UNCHANGED <<ht, status, tableGrowMutex, regionRWMutex, committed,
                   unmappedAccess, concFixed>>

\* mutex := ht.regionRWMutex[region]; mutex.Lock() or mutex.RLock()
CLock(t) ==
    LET s == th[t]
        region == Region(consts, s.bucket)
        mode == LockMode(s.op)
    IN  /\ status = "open"
        /\ s.pc = "lock"
        /\ IF region >= ht.NumMutexes
           THEN /\ status' = "panicked"
                /\ UNCHANGED <<th, regionRWMutex>>
           ELSE /\ IF mode = "W" THEN CanLock(regionRWMutex, region)
                                 ELSE CanRLock(regionRWMutex, region)
                /\ regionRWMutex' = regionRWMutex \cup {<<region, t, mode>>}
                /\ th' = [th EXCEPT ![t].pc = "scan"]
                /\ status' = status
        /\ UNCHANGED <<ht, onlyPuts, tableGrowMutex, committed,
                       unmappedAccess, concFixed>>

\* The region locks without the ones thread t holds.
Unlocked(held, t) == {h \in held : h[2] # t}

\* Put, holding the lock of the bucket: the entry loop up to the test
\* that finds an entry whose flag is not valid, or mutex.Unlock() on a
\* full bucket.
CScanPut(t) ==
    LET s == th[t]
        entry == PutSlot(ht, s.bucket, 0)
    IN  /\ status = "open"
        /\ s.pc = "scan" /\ s.op = "Put"
        /\ ht.File.Mapped
        /\ IF entry < ht.PerBucket
           THEN /\ th' = [th EXCEPT ![t].pc = "P_flag", ![t].entry = entry]
                /\ UNCHANGED regionRWMutex
           ELSE /\ regionRWMutex' = Unlocked(regionRWMutex, t)
                /\ th' = [th EXCEPT ![t].pc = "next"]
        /\ UNCHANGED <<ht, status, onlyPuts, tableGrowMutex, committed,
                       unmappedAccess, concFixed>>

\* ht.File.Buf[entryAddr] = ENTRY_VALID
CPutFlag(t) ==
    LET s == th[t] IN
    /\ status = "open"
    /\ s.pc = "P_flag"
    /\ ht.File.Mapped
    /\ ht' = [ht EXCEPT !.File.Buf =
                 PutFlag(@, entryAddrOf(ht, s.bucket, s.entry))]
    /\ committed' = {c \in committed :
                        ~(c[1] = s.bucket /\ c[2] = s.entry)}
    /\ th' = [th EXCEPT ![t].pc = "P_key"]
    /\ UNCHANGED <<status, onlyPuts, tableGrowMutex, regionRWMutex,
                   unmappedAccess, concFixed>>

\* binary.PutUvarint(ht.File.Buf[entryAddr+1:entryAddr+11], key)
CPutKey(t) ==
    LET s == th[t] IN
    /\ status = "open"
    /\ s.pc = "P_key"
    /\ ht.File.Mapped
    /\ ht' = [ht EXCEPT !.File.Buf =
                 PutKey(@, entryAddrOf(ht, s.bucket, s.entry), s.key)]
    /\ th' = [th EXCEPT ![t].pc = "P_val"]
    /\ UNCHANGED <<status, onlyPuts, tableGrowMutex, regionRWMutex, committed,
                   unmappedAccess, concFixed>>

\* binary.PutUvarint(ht.File.Buf[entryAddr+11:entryAddr+21], val);
\* mutex.Unlock(); return
CPutVal(t) ==
    LET s == th[t] IN
    /\ status = "open"
    /\ s.pc = "P_val"
    /\ ht.File.Mapped
    /\ ht' = [ht EXCEPT !.File.Buf =
                 PutVal(@, entryAddrOf(ht, s.bucket, s.entry), s.val)]
    /\ committed' = committed \cup {<<s.bucket, s.entry, s.key, s.val>>}
    /\ regionRWMutex' = Unlocked(regionRWMutex, t)
    /\ th' = [th EXCEPT ![t] =
                 [Returned(s) EXCEPT !.puts = Append(@, <<s.key, s.val>>)]]
    /\ UNCHANGED <<status, onlyPuts, tableGrowMutex, unmappedAccess, concFixed>>

\* Get, holding the lock of the bucket: the entry loop of the bucket, then
\* mutex.RUnlock().
CScanGet(t) ==
    LET s == th[t]
        b == GetBucket(ht, s.key, 0, "true", s.bucket, 0, s.res)
    IN  /\ status = "open"
        /\ s.pc = "scan" /\ s.op = "Get"
        /\ ht.File.Mapped
        /\ regionRWMutex' = Unlocked(regionRWMutex, t)
        /\ th' = [th EXCEPT ![t] =
                     IF b.out = "next"
                     THEN [s EXCEPT !.pc = "next", !.res = b.res]
                     ELSE Returned(s)]
        /\ UNCHANGED <<ht, status, onlyPuts, tableGrowMutex, committed,
                       unmappedAccess, concFixed>>

\* Remove, holding the lock of the bucket: the entry loop of the bucket,
\* then mutex.Unlock().
CScanRemove(t) ==
    LET s == th[t]
        b == RemoveBucket(ht, s.key, s.val, s.bucket, 0)
    IN  /\ status = "open"
        /\ s.pc = "scan" /\ s.op = "Remove"
        /\ ht.File.Mapped
        /\ ht' = [ht EXCEPT !.File.Buf = b.Buf]
        /\ regionRWMutex' = Unlocked(regionRWMutex, t)
        /\ th' = [th EXCEPT ![t] =
                     IF b.out = "next"
                     THEN [s EXCEPT !.pc = "next"]
                     ELSE Returned(s)]
        /\ UNCHANGED <<status, onlyPuts, tableGrowMutex, committed,
                       unmappedAccess, concFixed>>

\* GetAll goes on to the next head, or returns after the last one.
NextHead(T, s) ==
    IF s.head + 1 < Pow2(T.HashBits)
    THEN [s EXCEPT !.head = @ + 1, !.bucket = s.head + 1, !.pc = "lock"]
    ELSE Returned(s)

\* GetAll, holding the lock of the bucket: the entry loop of the bucket,
\* then mutex.RUnlock().
CScanGetAll(t) ==
    LET s == th[t]
        b == GetAllBucket(ht, 0, s.bucket, 0, s.res)
    IN  /\ status = "open"
        /\ s.pc = "scan" /\ s.op = "GetAll"
        /\ ht.File.Mapped
        /\ regionRWMutex' = Unlocked(regionRWMutex, t)
        /\ th' = [th EXCEPT ![t] =
                     IF b.out = "next"
                     THEN [s EXCEPT !.pc = "next", !.res = b.res]
                     ELSE IF b.out = "break"
                     THEN NextHead(ht, [s EXCEPT !.res = b.res])
                     ELSE Returned(s)]
        /\ UNCHANGED <<ht, status, onlyPuts, tableGrowMutex, committed,
                       unmappedAccess, concFixed>>

\* What a thread does with the result next of nextBucket.
AfterNextBucket(T, s, next) ==
    IF next = 0
    THEN IF s.op = "Put"
         THEN [s EXCEPT !.pc = "G_lock"]
         ELSE IF s.op = "GetAll" /\ GetAllChainEnd # "return"
         THEN NextHead(T, s)
         ELSE Returned(s)
    ELSE [s EXCEPT !.bucket = next, !.pc = "lock"]

\* bucket = ht.nextBucket(bucket), with no lock held.
CNextBucket(t) ==
    LET s == th[t] IN
    /\ status = "open"
    /\ s.pc = "next"
    /\ ht.File.Mapped
    /\ th' = [th EXCEPT ![t] = AfterNextBucket(ht, s, nextBucket(ht, s.bucket))]
    /\ UNCHANGED <<ht, status, onlyPuts, tableGrowMutex, regionRWMutex,
                   committed, unmappedAccess, concFixed>>

\* nextBucket reads the bucket header while grow has the window unmapped
\* and the read does not fault: it yields whatever lies at the address.
CNextBucketUnmapped(t, next) ==
    LET s == th[t] IN
    /\ status = "open"
    /\ s.pc = "next"
    /\ ~ht.File.Mapped
    /\ unmappedAccess' = unmappedAccess \cup {t}
    /\ th' = [th EXCEPT ![t] =
                 AfterNextBucket(ht, s, nextBucketOf(ht, s.bucket, next))]
    /\ UNCHANGED <<ht, status, onlyPuts, tableGrowMutex, regionRWMutex,
                   committed, concFixed>>

\* A thread uses the window while grow has it unmapped, and faults.
CFault(t) ==
    /\ status = "open"
    /\ th[t].pc \in {"scan", "P_flag", "P_key", "P_val", "next"}
    /\ ~ht.File.Mapped
    /\ unmappedAccess' = unmappedAccess \cup {t}
    /\ status' = "panicked"
    /\ UNCHANGED <<ht, th, onlyPuts, tableGrowMutex, regionRWMutex, committed,
                   concFixed>>

\* grow: ht.tableGrowMutex.Lock() and the test of File.CheckSize.  A table
\* at the bound of the model (MaxOverflow buckets more than the threads
\* found, kept in prev) does not grow.
CGrowLock(t) ==
    /\ status = "open"
    /\ th[t].pc = "G_lock"
    /\ tableGrowMutex = 0
    /\ ht.NumBuckets < prev.NumBuckets + MaxOverflow
    /\ tableGrowMutex' = t
    /\ th' = [th EXCEPT ![t].pc = IF CheckSize(ht.File, ht.BucketSize)
                                  THEN "G_link" ELSE "G_barrier"]
    /\ UNCHANGED <<ht, status, onlyPuts, regionRWMutex, committed,
                   unmappedAccess, concFixed>>

\* grow: region.Lock() for every region of originalMutexes.  A thread that
\* holds a region lock waits for no other lock, so the locks are taken in
\* one step, once all of them are free.
CGrowBarrier(t) ==
    /\ status = "open"
    /\ th[t].pc = "G_barrier"
    /\ \A region \in 0 .. ht.NumMutexes - 1 : CanLock(regionRWMutex, region)
    /\ regionRWMutex' = regionRWMutex \cup
                            {<<region, t, "W">> : region \in 0 .. ht.NumMutexes - 1}
    /\ th' = [th EXCEPT ![t].pc = "G_unmap"]
    /\ UNCHANGED <<ht, status, onlyPuts, tableGrowMutex, committed,
                   unmappedAccess, concFixed>>

\* CheckSizeAndEnsure: file.Buf.Unmap()
CGrowUnmap(t) ==
    /\ status = "open"
    /\ th[t].pc = "G_unmap"
    /\ ht' = [ht EXCEPT !.File.Mapped = FALSE]
    /\ th' = [th EXCEPT ![t].pc = "G_map"]
    /\ UNCHANGED <<status, onlyPuts, tableGrowMutex, regionRWMutex, committed,
                   unmappedAccess, concFixed>>

\* CheckSizeAndEnsure: the file is extended and mapped, Size += Growth,
\* and the call recurs.
CGrowMap(t) ==
    LET F == GrowFile(consts, ht.File) IN
    /\ status = "open"
    /\ th[t].pc = "G_map"
    /\ ht' = [ht EXCEPT !.File = F]
    /\ th' = [th EXCEPT ![t].pc = IF CheckSize(F, ht.BucketSize)
                                  THEN "G_mutexes" ELSE "G_unmap"]
    /\ UNCHANGED <<status, onlyPuts, tableGrowMutex, regionRWMutex, committed,
                   unmappedAccess, concFixed>>

\* grow: moreMutexes are appended and the original region locks released.
CGrowMutexes(t) ==
    /\ status = "open"
    /\ th[t].pc = "G_mutexes"
    /\ ht' = [ht EXCEPT !.NumMutexes = @ + moreMutexes(consts)]
    /\ regionRWMutex' = Unlocked(regionRWMutex, t)
    /\ th' = [th EXCEPT ![t].pc = "G_link"]
    /\ UNCHANGED <<status, onlyPuts, tableGrowMutex, committed,
                   unmappedAccess, concFixed>>

\* grow: the header of the last bucket of the chain is set to NumBuckets.
\* PutUvarint stores the varint one byte at a time, lowest seven bits
\* first, and nextBucket reads headers with no lock: a varint of one byte
\* is one store, one of more bytes takes a step for each byte (pc "G_byte",
\* with the last bucket in bucket and the index of the byte in entry).
CGrowLink(t) ==
    LET s == th[t]
        first == s.pc = "G_link"
        lastB == IF first THEN lastBucket(ht, hashKey(ht, s.key)) ELSE s.bucket
        i == IF first THEN 0 ELSE s.entry
        x == ht.NumBuckets \div Pow2(7 * i)
    IN  /\ status = "open"
        /\ s.pc \in {"G_link", "G_byte"}
        /\ tableGrowMutex = t
        /\ ht' = [ht EXCEPT !.File.Buf =
                     IF first /\ x < 128
                     THEN growLink(ht, hashKey(ht, s.key))
                     ELSE SetByte(@, lastB * ht.BucketSize + i,
                                  IF x >= 128 THEN (x % 128) + 128 ELSE x)]
        /\ th' = [th EXCEPT ![t] =
                     IF x >= 128
                     THEN [s EXCEPT !.pc = "G_byte", !.bucket = lastB,
                                    !.entry = i + 1]
                     ELSE [s EXCEPT !.pc = "G_used", !.entry = 0]]
        /\ UNCHANGED <<status, onlyPuts, tableGrowMutex, regionRWMutex,
                       committed, unmappedAccess, concFixed>>

\* grow: ht.File.UsedSize += ht.BucketSize
CGrowUsedSize(t) ==
    /\ status = "open"
    /\ th[t].pc = "G_used"
    /\ ht' = [ht EXCEPT !.File.UsedSize = growUsedSize(ht)]
    /\ th' = [th EXCEPT ![t].pc = "G_num"]
    /\ UNCHANGED <<status, onlyPuts, tableGrowMutex, regionRWMutex, committed,
                   unmappedAccess, concFixed>>

\* grow: ht.NumBuckets += 1; ht.tableGrowMutex.Unlock(); then Put calls
\* itself (ht.Put(key, val)) and starts again at the head.
CGrowNumBuckets(t) ==
    /\ status = "open"
    /\ th[t].pc = "G_num"
    /\ ht' = [ht EXCEPT !.NumBuckets = @ + 1]
    /\ tableGrowMutex' = 0
    /\ th' = [th EXCEPT ![t].pc = "lock",
                        ![t].bucket = hashKey(ht, th[t].key)]
    /\ UNCHANGED <<status, onlyPuts, regionRWMutex, committed,
                   unmappedAccess, concFixed>>

\* The steps of thread t inside a call.
CRun(t) ==
    \/ CLock(t)
    \/ CScanPut(t)
    \/ CPutFlag(t)
    \/ CPutKey(t)
    \/ CPutVal(t)
    \/ CScanGet(t)
    \/ CScanRemove(t)
    \/ CScanGetAll(t)
    \/ CNextBucket(t)
    \/ \E next \in 0 .. ht.NumBuckets : CNextBucketUnmapped(t, next)
    \/ CFault(t)
    \/ CGrowLock(t)
    \/ CGrowBarrier(t)
    \/ CGrowUnmap(t)
    \/ CGrowMap(t)
    \/ CGrowMutexes(t)
    \/ CGrowLink(t)
    \/ CGrowUsedSize(t)
    \/ CGrowNumBuckets(t)

ConcNext ==
    \E t \in Threads :
        \/ \E key \in CKeys, val \in CVals : CBegin(t, "Put", key, val)
        \/ \E key \in CKeys, val \in CVals : CBegin(t, "Remove", key, val)
        \/ \E key \in CKeys : CBegin(t, "Get", key, 0)
        \/ CBegin(t, "GetAll", 0, 0)
        \/ CRun(t)

ConcSpec == ConcInit /\ [][ConcNext]_vars

\* ConcSpec under fair scheduling: a thread inside a call that can take a
\* step eventually takes one.  Whether a thread makes another call is left
\* open.
ConcFairSpec == ConcSpec /\ \A t \in Threads : WF_vars(CRun(t))

(***************************************************************************)
(* Concurrent Puts on a table of more than 127 buckets, where the number   *)
(* grow stores in a header is a varint of two bytes.                       *)
(***************************************************************************)
\* The pairs put before the threads of TornSpec start, on a table of 16
\* heads.  They leave 144 buckets: bucket 16, the first overflow bucket,
\* is on the chain of head 2 and has a free entry, the 127 overflow buckets
\* after it are on the chains of the heads 0 and 3 .. 15, bucket 1 is full
\* and has no overflow bucket, and the file has room for one more bucket.
LongFill ==
    [i \in 1 .. 273 |->
        IF i <= 3 THEN <<2, 1>>
        ELSE IF i <= 269
             THEN <<IF (i - 4) % 14 = 0 THEN 0 ELSE ((i - 4) % 14) + 2, 1>>
             ELSE IF i <= 271 THEN <<0, 1>>
                  ELSE <<1, i - 271>>]

TornInit ==
    /\ consts = ScaledConsts
    /\ puts = LongFill
    /\ ht = PutAll(ScaledConsts, NewTable(ScaledConsts, 4, 2), puts)
    /\ status = "open"
    /\ last = NoCall
    /\ ret = NoPairs
    /\ prev = ht
    /\ onlyPuts = TRUE
    /\ nops = 0
    /\ FileIdle
    /\ th = [t \in Threads |-> IdleThread(CallsLeft(puts))]
    /\ tableGrowMutex = 0
    /\ regionRWMutex = {}
    /\ committed = ValidEntries(ht)
    /\ unmappedAccess = {}

\* Each thread puts one pair on head 1.
TornNext ==
    \E t \in Threads :
        \/ \E val \in CVals : CBegin(t, "Put", 1, val)
        \/ CLock(t)
        \/ CScanPut(t)
        \/ CPutFlag(t)
        \/ CPutKey(t)
        \/ CPutVal(t)
        \/ CNextBucket(t)
        \/ \E next \in 0 .. ht.NumBuckets : CNextBucketUnmapped(t, next)
        \/ CFault(t)
        \/ CGrowLock(t)
        \/ CGrowBarrier(t)
        \/ CGrowUnmap(t)
        \/ CGrowMap(t)
        \/ CGrowMutexes(t)
        \/ CGrowLink(t)
        \/ CGrowUsedSize(t)
        \/ CGrowNumBuckets(t)

TornSpec == TornInit /\ [][TornNext]_vars

(***************************************************************************)
(* Claims.                                                                 *)
(***************************************************************************)
\* The pairs of a sequence of <<key, val>> whose key is k, as Get lists them.
PairsOf(ps, k) ==
    LET sel == SelectSeq(ps, LAMBDA p : p[1] = k) IN
    [keys |-> [i \in 1 .. Len(sel) |-> sel[i][1]],
     vals |-> [i \in 1 .. Len(sel) |-> sel[i][2]]]

\* The number of times val occurs in the vals of a result.
Count(res, val) == Cardinality({i \in 1 .. Len(res.vals) : res.vals[i] = val})

\* The pairs of a result whose key is k.
PairsWithKey(res, k) ==
    LET idx == {i \in 1 .. Len(res.keys) : res.keys[i] = k}
        RECURSIVE pick(_)
        pick(i) == IF i > Len(res.keys) THEN <<>>
                   ELSE IF i \in idx THEN <<<<res.keys[i], res.vals[i]>>>> \o pick(i + 1)
                   ELSE pick(i + 1)
    IN  PairsOf(pick(1), k)

GetCalled(k) ==
    /\ last.op = "Get" /\ last.key = k
    /\ last.limit = 0 /\ last.filter = "true"

\* C1: on a freshly opened table, after Puts only, Get(k, 0, always-true)
\* returns for every key k exactly the pairs put with key k, duplicates
\* kept, in the order of the Puts.
C1_PutsThenGet ==
    onlyPuts =>
        /\ \A k \in Keys(ht) : Get(ht, k, 0, "true") = PairsOf(puts, k)
        /\ \A k \in Keys(ht) : GetCalled(k) => ret = PairsOf(puts, k)

\* C1 witness: a Get that returned three pairs of one key, the third from
\* an overflow bucket.
C1_Witness ==
    /\ onlyPuts
    /\ \E k \in Keys(ht) : GetCalled(k)
    /\ Len(ret.keys) = 3
    /\ ht.NumBuckets > ht.InitialBuckets

\* C2: after Put(k, v) followed by Remove(k, v), Get(k, 0, always-true)
\* returns no entry for the pair that was put, and every other pair (k, v')
\* it returned before the Put is still returned.  (Stated in the state that
\* Put(k, v) left, for the Remove(k, v) that follows.)
C2_PutThenRemove ==
    (status = "open" /\ last.op = "Put") =>
        LET before == Get(prev, last.key, 0, "true")
            after == Get(Remove(ht, last.key, last.val), last.key, 0, "true")
        IN  /\ Count(after, last.val) <= Count(before, last.val)
            /\ \A v \in Vals(ht) \ {last.val} : Count(after, v) >= Count(before, v)

\* C3: GetAll(0) returns every entry that the Gets of the single keys
\* return, each once, heads in index order and each chain in its order.
C3_GetAllIsUnionOfGets ==
    (last.op = "GetAll" /\ last.limit = 0) =>
        /\ \A k \in Keys(ht) : PairsWithKey(ret, k) = Get(ht, k, 0, "true")
        /\ \A i, j \in 1 .. Len(ret.keys) :
               i < j => hashKey(ht, ret.keys[i]) <= hashKey(ht, ret.keys[j])

\* The spec's scenario 2 on a fresh table with hashBits 4, perBucket 2.
Scenario2 ==
    /\ onlyPuts
    /\ ht.HashBits = 4 /\ ht.PerBucket = 2
    /\ puts = <<<<0, 100>>, <<16, 200>>, <<32, 300>>>>

\* C4 as claimed: after scenario 2, Get(0, 0, always-true) returns keys
\* [0, 16, 32] and vals [100, 200, 300].
C4_GetReturnsAllColliding ==
    Scenario2 =>
        Get(ht, 0, 0, "true") = [keys |-> <<0, 16, 32>>, vals |-> <<100, 200, 300>>]

\* C4 amended: after scenario 2, Get(0, 0, always-true) returns keys [0]
\* and vals [100]; the three colliding pairs lie on the chain of head 0 in
\* insertion order, each returned by the Get of its own key.
C4_GetReturnsOwnKey ==
    Scenario2 =>
        /\ Get(ht, 0, 0, "true") = [keys |-> <<0>>, vals |-> <<100>>]
        /\ Get(ht, 16, 0, "true") = [keys |-> <<16>>, vals |-> <<200>>]
        /\ Get(ht, 32, 0, "true") = [keys |-> <<32>>, vals |-> <<300>>]
        /\ GetAll(ht, 0) = [keys |-> <<0, 16, 32>>, vals |-> <<100, 200, 300>>]
        /\ GetCalled(0) => ret = [keys |-> <<0>>, vals |-> <<100>>]

\* C4 witness: Get(0, 0, always-true) has been called after scenario 2.
C4_Witness == Scenario2 /\ GetCalled(0) /\ ht.NumBuckets = 17

\* C8: closing the table and opening it again with the same hashBits and
\* perBucket recovers numBuckets and usedSize = numBuckets * bucketSize,
\* and every Get returns what it returned before.
C8_ReopenRecovers ==
    last.op = "Reopen" =>
        /\ status = "open"
        /\ ht.NumBuckets = prev.NumBuckets
        /\ ht.File.UsedSize = ht.NumBuckets * ht.BucketSize
        /\ ht.File.UsedSize = prev.File.UsedSize
        /\ \A k \in Keys(prev) :
               Get(ht, k, 0, "true") = Get(prev, k, 0, "true")

\* C9: Open(name, growth) with growth < 1 returns an error and no usable
\* file.
C9_GrowthRejected ==
    (fcall.op = "Open" /\ fcall.growth < 1) => (ferr /\ fpc = "failed")

\* The table was new when the threads started, every thread has made
\* MaxThreadOps calls, all of them Puts, and all of them have returned.
AllPutsReturned ==
    /\ status = "open"
    /\ puts = <<>>
    /\ \A t \in Threads :
           th[t].pc = "idle" /\ th[t].left = 0 /\ Len(th[t].puts) = MaxThreadOps

\* The keys a thread has put.
PutKeys(t) == {th[t].puts[i][1] : i \in 1 .. Len(th[t].puts)}

\* The number of times the pair <<key, val>> has been put, by all threads.
TimesPut(key, val) ==
    Cardinality({<<t, i>> \in Threads \X (1 .. MaxThreadOps) :
                     i <= Len(th[t].puts) /\ th[t].puts[i] = <<key, val>>})

\* The number of times the pair <<key, val>> occurs in a result.
TimesIn(res, key, val) ==
    Cardinality({i \in 1 .. Len(res.keys) :
                     res.keys[i] = key /\ res.vals[i] = val})

\* C5: when the threads have each made M Puts, concurrently and on disjoint
\* key sets, and all Puts have returned, GetAll(0) returns exactly N * M
\* entries, one per pair put.
C5_NoEntryLost ==
    (/\ AllPutsReturned
     /\ \A t, u \in Threads : t # u => PutKeys(t) \cap PutKeys(u) = {})
    => LET res == GetAll(ht, 0) IN
       /\ Len(res.keys) = Cardinality(Threads) * MaxThreadOps
       /\ \A key \in CKeys, val \in CVals :
              TimesIn(res, key, val) = TimesPut(key, val)

\* C6: whenever a Get or a GetAll reads the entries of a bucket, every
\* entry whose flag is valid holds the complete key and value of the last
\* Put that claimed the entry, and that Put has finished its writes.
C6_NoTornEntry ==
    \A t \in Threads :
        (th[t].pc = "scan" /\ th[t].op \in {"Get", "GetAll"}) =>
            \A entry \in 0 .. ht.PerBucket - 1 :
                LET entryAddr == entryAddrOf(ht, th[t].bucket, entry) IN
                ByteAt(ht.File.Buf, entryAddr) = ENTRY_VALID =>
                    <<th[t].bucket, entry, entryKeyAt(ht, entryAddr),
                      entryValAt(ht, entryAddr)>> \in committed

\* C6 witness: a Put has written the flag of an entry it reuses, whose
\* value field still holds the value of the pair removed from it, while a
\* Get or GetAll is about to lock the same bucket.
C6_Witness ==
    \E w, r \in Threads :
        /\ th[w].pc \in {"P_key", "P_val"}
        /\ entryValAt(ht, entryAddrOf(ht, th[w].bucket, th[w].entry))
               \notin {0, th[w].val}
        /\ th[r].op \in {"Get", "GetAll"}
        /\ th[r].pc = "lock"
        /\ th[r].bucket = th[w].bucket

\* C7: no thread reads or writes the byte window between grow's unmap of
\* the old window and the mapping of the new one.
C7_NoAccessWhileUnmapped == unmappedAccess = {}

\* No thread has called the table yet: the file is newly created.
NoCallYet ==
    /\ puts = <<>>
    /\ \A t \in Threads : th[t].pc = "idle" /\ th[t].left = MaxThreadOps

\* On a newly created file numBuckets is 2^hashBits; with hashBits 4 and
\* perBucket 2 in the build of the source, 16 buckets, 832 bytes used, and
\* a file of 1 MiB.
FreshFile ==
    NoCallYet =>
        /\ ht.NumBuckets = Pow2(ht.HashBits)
        /\ \A K \in {RealConsts, ScaledConsts}, hashBits \in 2 .. 5,
              perBucket \in 2 .. 3 :
               LET T == NewTable(K, hashBits, perBucket) IN
               /\ T.NumBuckets = Pow2(hashBits)
               /\ T.File.UsedSize = T.NumBuckets * T.BucketSize
        /\ LET T == NewTable(RealConsts, 4, 2) IN
           /\ T.NumBuckets = 16
           /\ T.File.UsedSize = 832
           /\ T.File.Size = 1048576
           /\ T.File.Len = 1048576

\* A grow has raised usedSize and has not yet raised numBuckets.
GrowBetweenUpdates == \E t \in Threads : th[t].pc = "G_num"

\* C10 as claimed: usedSize == numBuckets * bucketSize in every state,
\* those inside a grow included.
C10_UsedSizeAlways ==
    /\ ht.File.UsedSize = ht.NumBuckets * ht.BucketSize
    /\ FreshFile

\* C10 amended: usedSize == numBuckets * bucketSize in every state in which
\* no grow is between its two updates; between them usedSize is one bucket
\* ahead.  A newly created file has 2^hashBits buckets.
C10_UsedSizeOutsideGrow ==
    /\ ht.File.UsedSize =
           IF GrowBetweenUpdates
           THEN (ht.NumBuckets + 1) * ht.BucketSize
           ELSE ht.NumBuckets * ht.BucketSize
    /\ FreshFile

\* C10 witness: a grow is between its two updates while another thread is
\* about to read numBuckets in nextBucket.
C10_Witness ==
    \E t, u \in Threads :
        /\ th[t].pc = "G_num"
        /\ th[u].pc = "next"
        /\ ht.File.UsedSize = (ht.NumBuckets + 1) * ht.BucketSize

Header(T, c) == Uvarint(T.File.Buf, c * T.BucketSize, BUCKET_HEADER_SIZE)

\* The buckets that exist or are being linked: a grow that has written the
\* header of the last bucket has not yet raised numBuckets.
BucketLimit ==
    IF \E t \in Threads : th[t].pc \in {"G_used", "G_num"}
    THEN ht.NumBuckets + 1
    ELSE ht.NumBuckets

\* The buckets of the chain that starts at bucket c, by the stored headers.
RECURSIVE ChainFrom(_, _, _)
ChainFrom(T, c, limit) ==
    LET next == Header(T, c) IN
    IF c < next /\ next < limit
    THEN {c} \cup ChainFrom(T, next, limit)
    ELSE {c}

\* C12: every overflow bucket is the target of the header of exactly one
\* other bucket; every header that is not zero, stored in bucket c, holds
\* a number above c, at least initialBuckets and, once the grow that wrote
\* it has completed, below numBuckets; so no chain has a cycle and every
\* overflow bucket lies on the chain of exactly one head.
C12_ChainStructure ==
    /\ \A c \in 0 .. BucketLimit - 1 :
           Header(ht, c) # 0 =>
               /\ c < Header(ht, c)
               /\ Header(ht, c) < BucketLimit
               /\ Header(ht, c) >= ht.InitialBuckets
    /\ \A b \in ht.InitialBuckets .. BucketLimit - 1 :
           /\ Cardinality({c \in 0 .. BucketLimit - 1 : Header(ht, c) = b}) = 1
           /\ Cardinality({head \in 0 .. ht.InitialBuckets - 1 :
                               b \in ChainFrom(ht, head, BucketLimit)}) = 1

\* C12 witness: concurrent Puts have appended a bucket to the chain of
\* head 0 and one to the chain of head 1, and the second grow has written
\* its header and not yet raised numBuckets.
C12_Witness ==
    /\ Header(ht, 0) # 0
    /\ Header(ht, 1) # 0
    /\ ht.NumBuckets = ht.InitialBuckets + 1
    /\ BucketLimit = ht.NumBuckets + 1
    /\ \A t \in Threads : th[t].op = "Put"

\* The addresses of the entries of the chain that starts at bucket, in
\* chain order.
RECURSIVE ChainEntries(_, _)
ChainEntries(T, bucket) ==
    LET here == [entry \in 1 .. T.PerBucket |->
                     entryAddrOf(T, bucket, entry - 1)]
        next == nextBucket(T, bucket)
    IN  IF next = 0 THEN here ELSE here \o ChainEntries(T, next)

\* The entry at entryAddr is one that scans take for never written.
IsSentinel(T, entryAddr) ==
    /\ ByteAt(T.File.Buf, entryAddr) # ENTRY_VALID
    /\ entryKeyAt(T, entryAddr) = 0
    /\ entryValAt(T, entryAddr) = 0

\* The entries of the chain of a head that a scan reaches: those before the
\* first sentinel.
Reached(T, head) ==
    LET es == ChainEntries(T, head)
        stops == {i \in 1 .. Len(es) : IsSentinel(T, es[i])}
    IN  IF stops = {} THEN es
        ELSE SubSeq(es, 1, (CHOOSE i \in stops : \A j \in stops : i <= j) - 1)

\* The positions, in the entries a scan of key's chain reaches, of the
\* valid entries that store key and val.
Matches(T, key, val) ==
    LET es == Reached(T, hashKey(T, key)) IN
    {i \in 1 .. Len(es) :
         /\ ByteAt(T.File.Buf, es[i]) = ENTRY_VALID
         /\ entryKeyAt(T, es[i]) = key
         /\ entryValAt(T, es[i]) = val}

\* C13: Remove(key, val) clears the flag of the first valid entry with key
\* and val that the scan of the chain reaches and changes nothing else;
\* when there is no such entry it leaves the whole table unchanged.
C13_RemoveFrame ==
    (status = "open" /\ last.op = "Remove") =>
        LET es == Reached(prev, hashKey(prev, last.key))
            ms == Matches(prev, last.key, last.val)
        IN  IF ms = {}
            THEN ht = prev
            ELSE LET first == CHOOSE i \in ms : \A j \in ms : i <= j IN
                 ht = [prev EXCEPT !.File.Buf =
                          [a \in DOMAIN @ \ {es[first]} |-> @[a]]]

\* C13 witness: a Remove has cleared one of two entries with the same key
\* and value, in a chain with an overflow bucket.
C13_Witness ==
    /\ status = "open"
    /\ last.op = "Remove"
    /\ ht # prev
    /\ Cardinality(Matches(prev, last.key, last.val)) = 2
    /\ Cardinality(Matches(ht, last.key, last.val)) = 1
    /\ Header(ht, hashKey(ht, last.key)) # 0

\* The entries among es, in order, that are valid, store key, and pass the
\* filter f.
Matching(T, es, key, f) ==
    SelectSeq(es, LAMBDA a :
        /\ ByteAt(T.File.Buf, a) = ENTRY_VALID
        /\ entryKeyAt(T, a) = key
        /\ filter(f, entryKeyAt(T, a), entryValAt(T, a)))

\* The first n of the entries es as a result of Get, all of them for n = 0.
FirstPairs(T, es, n) ==
    LET m == IF n = 0 \/ n > Len(es) THEN Len(es) ELSE n IN
    [keys |-> [i \in 1 .. m |-> entryKeyAt(T, es[i])],
     vals |-> [i \in 1 .. m |-> entryValAt(T, es[i])]]

\* C14: Get(key, limit, filter) returns, in chain order, the valid entries
\* of the chain that store key and pass the filter: the first
\* min(limit, their number) of them for limit > 0, all of them for
\* limit = 0; keys and vals are equally long and the table is unchanged.
C14_GetLimitAndFilter ==
    (status = "open" /\ last.op = "Get") =>
        /\ ret = FirstPairs(ht, Matching(ht, ChainEntries(ht, hashKey(ht, last.key)),
                                         last.key, last.filter),
                            last.limit)
        /\ Len(ret.keys) = Len(ret.vals)
        /\ ht = prev

\* What an entry holds: its flag, and the key and value it stores.
EntryView(T, entryAddr) ==
    <<ByteAt(T.File.Buf, entryAddr), entryKeyAt(T, entryAddr),
      entryValAt(T, entryAddr)>>

\* The addresses of all entries of the buckets below n.
AllEntries(T, n) ==
    {entryAddrOf(T, bucket, entry) :
         bucket \in 0 .. n - 1, entry \in 0 .. T.PerBucket - 1}

\* The positions, in chain order, of the entries of the chain of a head
\* whose flag is not valid.
FreeEntries(T, head) ==
    LET es == ChainEntries(T, head) IN
    {i \in 1 .. Len(es) : ByteAt(T.File.Buf, es[i]) # ENTRY_VALID}

\* The spec's scenario: after scenario 2 and Remove(16, 200), Put(48, 400)
\* reuses entry 1 of head 0.
ReuseScenario ==
    LET T0 == NewTable(RealConsts, 4, 2)
        T1 == PutAll(RealConsts, T0, <<<<0, 100>>, <<16, 200>>, <<32, 300>>>>)
        T2 == Remove(T1, 16, 200)
        T3 == Put(RealConsts, T2, 48, 400)
    IN  /\ EntryView(T2, entryAddrOf(T2, 0, 1)) = <<ENTRY_INVALID, 16, 200>>
        /\ EntryView(T3, entryAddrOf(T3, 0, 1)) = <<ENTRY_VALID, 48, 400>>
        /\ EntryView(T3, entryAddrOf(T3, 16, 0)) = <<ENTRY_VALID, 32, 300>>
        /\ T3.NumBuckets = 17

\* C15: a sequential Put(key, val) writes the pair into the first entry,
\* in chain order from the head of key, whose flag is not valid, and
\* changes nothing else; when every entry of the chain is valid it appends
\* one bucket, sets the header of the former last bucket to the old
\* numBuckets, and writes the pair into entry 0 of the new bucket.
C15_PutFirstFreeEntry ==
    /\ (status = "open" /\ last.op = "Put") =>
        LET head == hashKey(prev, last.key)
            es == ChainEntries(prev, head)
            free == FreeEntries(prev, head)
            grown == free = {}
            target == IF grown
                      THEN entryAddrOf(prev, prev.NumBuckets, 0)
                      ELSE es[CHOOSE i \in free : \A j \in free : i <= j]
            former == lastBucket(prev, head)
        IN  /\ EntryView(ht, target) = <<ENTRY_VALID, last.key, last.val>>
            /\ \A a \in AllEntries(prev, prev.NumBuckets) \ {target} :
                   EntryView(ht, a) = EntryView(prev, a)
            /\ ht.NumBuckets = IF grown THEN prev.NumBuckets + 1
                               ELSE prev.NumBuckets
            /\ ht.File.UsedSize = ht.NumBuckets * ht.BucketSize
            /\ \A c \in 0 .. ht.NumBuckets - 1 :
                   Header(ht, c) = IF grown /\ c = former
                                   THEN prev.NumBuckets
                                   ELSE IF c < prev.NumBuckets
                                   THEN Header(prev, c) ELSE 0
            /\ grown => \A entry \in 1 .. ht.PerBucket - 1 :
                   EntryView(ht, entryAddrOf(ht, prev.NumBuckets, entry))
                       = <<ENTRY_INVALID, 0, 0>>
    /\ nops = 0 => ReuseScenario

\* C15 witness: a Put has reused an entry freed by Remove that lies before
\* a valid entry of the chain.
C15_Witness ==
    /\ status = "open"
    /\ last.op = "Put"
    /\ ht.NumBuckets = prev.NumBuckets
    /\ LET es == ChainEntries(prev, hashKey(prev, last.key))
           free == FreeEntries(prev, hashKey(prev, last.key))
       IN  \E i \in free :
               /\ \A j \in free : i <= j
               /\ \E j \in i + 1 .. Len(es) :
                      ByteAt(prev.File.Buf, es[j]) = ENTRY_VALID
               /\ EntryView(ht, es[i]) = <<ENTRY_VALID, last.key, last.val>>

\* The least number of growth steps after which F has room for more.
RECURSIVE GrowthSteps(_, _, _)
GrowthSteps(F, more, n) ==
    IF F.UsedSize + more <= F.Size + n * F.Growth
    THEN n
    ELSE GrowthSteps(F, more, n + 1)

\* C16: for growth >= 1, CheckSizeAndEnsure(more) changes nothing when
\* CheckSize(more) holds; otherwise every growth step appends exactly
\* growth bytes to the file and adds growth to size, for the least number
\* of steps after which CheckSize(more) holds; usedSize is unchanged and
\* the window, which maps the whole file, is as long as size.
C16_EnsureSizeGrowsByGrowth ==
    (fpc = "open" /\ fcall.op = "CheckSizeAndEnsure" /\ fcall.growth >= 1) =>
        IF CheckSize(prev, fcall.more)
        THEN file = prev
        ELSE LET n == GrowthSteps(prev, fcall.more, 0) IN
             /\ file.Size = prev.Size + n * prev.Growth
             /\ file.Len = prev.Len + n * prev.Growth
             /\ file.UsedSize = prev.UsedSize
             /\ file.Mapped
             /\ prev.Len = prev.Size => file.Len = file.Size
             /\ CheckSize(file, fcall.more)
             /\ file.Buf = prev.Buf
             /\ file.Growth = prev.Growth

\* Thread t holds the lock of the region of bucket, exclusively if asked.
HoldsRegion(t, bucket, exclusive) ==
    \E h \in regionRWMutex :
        /\ h[1] = Region(consts, bucket)
        /\ h[2] = t
        /\ exclusive => h[3] = "W"

\* C17: a thread that is about to read the entries or the header of a
\* bucket holds the lock of the bucket's region; a thread that is about to
\* write an entry or a header holds it exclusively (grow's barrier holds
\* every region lock exclusively).
C17_LockDiscipline ==
    \A t \in Threads :
        /\ th[t].pc = "scan" =>
               HoldsRegion(t, th[t].bucket, th[t].op \in {"Put", "Remove"})
        /\ th[t].pc \in {"P_flag", "P_key", "P_val"} => HoldsRegion(t, th[t].bucket, TRUE)
        /\ th[t].pc = "next" => HoldsRegion(t, th[t].bucket, FALSE)
        /\ th[t].pc = "G_link" =>
               HoldsRegion(t, lastBucket(ht, hashKey(ht, th[t].key)), TRUE)

\* C18: an entry that scans take for never written (flag not valid, key 0,
\* value 0) is followed, in the order of its chain, by no valid entry.
C18_SentinelEndsData ==
    status = "open" =>
        \A head \in 0 .. ht.InitialBuckets - 1 :
            LET es == ChainEntries(ht, head) IN
            \A i, j \in 1 .. Len(es) :
                (i < j /\ IsSentinel(ht, es[i]))
                    => ByteAt(ht.File.Buf, es[j]) # ENTRY_VALID

\* C19: under fair scheduling every call of Put, Get, Remove and GetAll
\* that a thread has made eventually returns.
C19_EveryCallReturns ==
    \A t \in Threads : (th[t].pc # "idle") ~> (th[t].pc = "idle")

\* The bytes of the file on disk are p bytes that are not zero followed
\* by zeros only.
IsPrefix(disk, p) ==
    /\ p <= disk.Len
    /\ \A i \in 0 .. disk.Len - 1 : (ByteAt(disk.Buf, i) # 0) <=> (i < p)

\* C20: on an existing file of size >= 1, whatever its bytes, the search
\* for the used size in Open indexes the window inside [0, size) only and
\* yields 0 <= usedSize <= size; for p bytes that are not zero followed by
\* zeros only it yields usedSize = p.
C20_UsedSizeRecovered ==
    (fcall.op = "Open" /\ fcall.sysErr = "none" /\ fdisk.Len >= 1) =>
        /\ fpc = "open"
        /\ 0 <= file.UsedSize
        /\ file.UsedSize <= file.Size
        /\ file.Size = fdisk.Len
        /\ \A p \in 0 .. fdisk.Len : IsPrefix(fdisk, p) => file.UsedSize = p

\* Every call the threads have made was a Put, and every call has returned.
OnlyPutsReturned ==
    /\ status = "open"
    /\ \A t \in Threads :
           /\ th[t].pc = "idle"
           /\ Len(th[t].puts) + th[t].left = CallsLeft(puts)

\* The number of times the pair <<key, val>> was put before the threads
\* started.
TimesPrefilled(key, val) ==
    Cardinality({i \in 1 .. Len(puts) : puts[i] = <<key, val>>})

\* The valid entries on the chain of hashKey(key) that hold <<key, val>>.
HeldOnChain(T, key, val) ==
    LET es == ChainEntries(T, hashKey(T, key)) IN
    {es[i] : i \in {j \in 1 .. Len(es) :
                        /\ ByteAt(T.File.Buf, es[j]) = ENTRY_VALID
                        /\ entryKeyAt(T, es[j]) = key
                        /\ entryValAt(T, es[j]) = val}}

\* The number of Puts the threads have completed.
PutsCompleted ==
    LET RECURSIVE sum(_)
        sum(ts) == IF ts = {} THEN 0
                   ELSE LET t == CHOOSE u \in ts : TRUE
                        IN  Len(th[t].puts) + sum(ts \ {t})
    IN  sum(Threads)

\* C21: once concurrent Puts, on the same or on different heads, have all
\* returned, no entry was claimed by two of them: each Put's pair occupies
\* a valid entry of its own on the chain of hashKey(key), and the table
\* holds as many more valid entries as Puts have completed.
C21_NoSlotClaimedTwice ==
    OnlyPutsReturned =>
        /\ \A key \in CKeys, val \in CVals :
               Cardinality(HeldOnChain(ht, key, val))
                   = TimesPrefilled(key, val) + TimesPut(key, val)
        /\ Cardinality(ValidEntries(ht)) = Len(puts) + PutsCompleted

====
